---- MODULE Spec2Model ----
(***************************************************************************)
(* SidesHub cached-counter consistency: the inline mutator                 *)
(* (DatabaseStorage like / unlike / bookmark / comment operations) and the *)
(* batch reconciler (countSync), one database statement per step.          *)
(***************************************************************************)
EXTENDS Integers, Sequences, FiniteSets, TLC

\* ------------------------------------------------------------------ bounds
MaxCalls == 2      \* inline operations started in one behaviour
MaxSyncRuns == 1   \* reconciler invocations in one behaviour of Spec
MaxFailures == 1   \* database statements that fail in one behaviour
MaxDrift == 1      \* largest cached value the reconciler may start from
MaxBatchRuns == 2  \* reconciler invocations in one behaviour of SpecSync

\* ------------------------------------------------------------- identities
Projects == {"p1", "p2"}
Posts == {"q1"}
Users == {"u1", "u2"}
Clients == {"c1", "c2"}
\* The project the modelled requests name; the other projects are bystanders.
Visited == {"p1"}
Null == "null"
\* The user who created every project and post of the model.
Author == "u1"

\* --------------------------------------------------------------- database
VARIABLES
  projects,          \* [Projects -> [viewCount, likeCount, commentCount, countsLastUpdated]]
  communityPosts,    \* [Posts -> [likeCount, commentCount, countsLastUpdated]]
  projectLikes,      \* [Projects \X Users -> Nat]: rows of project_likes per pair
  projectBookmarks,  \* [Projects \X Users -> Nat]: rows of project_bookmarks per pair
  postLikes,         \* [Posts \X Users -> Nat]: rows of post_likes per pair
  comments,          \* set of rows [id, projectId, postId, userId]
  projectViews,      \* [Projects -> Nat]: rows of project_views per project
  nextCommentId,     \* the id the next inserted comment row gets
  users,             \* ids of the rows of the users table
  owner,             \* [Projects \cup Posts -> the row's userId, Null when no row]
  now,               \* the clock new Date() reads
\* ------------------------------------------------------------- processes
  client,            \* [Clients -> the request each handler is serving]
  sync,              \* the reconciler invocation in progress
  calls,             \* inline operations started so far
  runsLeft,          \* reconciler invocations still to be started
  failuresLeft,      \* statements that may still fail
  dirty,             \* a normalized row was written while the reconciler ran
  prev               \* the previous completed syncAllCounts run, or NoRun

store == <<projects, communityPosts, projectLikes, projectBookmarks, postLikes,
           comments, projectViews, nextCommentId, users, owner>>
vars == <<projects, communityPosts, projectLikes, projectBookmarks, postLikes,
          comments, projectViews, nextCommentId, users, owner, now, client, sync, calls,
          runsLeft,
          failuresLeft, dirty, prev>>

\* ---------------------------------------------------------------- schema
\* The row a freshly created project has before any interaction.
NewProject == [viewCount |-> 0, likeCount |-> 0, commentCount |-> 0, countsLastUpdated |-> 0]
NewPost == [likeCount |-> 0, commentCount |-> 0, countsLastUpdated |-> 0]

\* project_likes / project_bookmarks / post_likes declare a generated primary
\* key and two foreign keys and nothing else: an insert of a (target, user)
\* pair that is already present adds one more row.
InsertPair(table, t, u) == [table EXCEPT ![<<t, u>>] = @ + 1]

\* delete ... where target = t and user = u removes every matching row.
DeletePair(table, t, u) == [table EXCEPT ![<<t, u>>] = 0]

\* result.rowCount of that delete.
RowCount(table, t, u) == table[<<t, u>>]

\* A projects / community_posts row with this id is present.
RowExists(e) == owner[e] # Null

\* update(table).set(...).where(eq(table.id, id)): the row with that id gets
\* the new values; with no such row the statement changes nothing.
WhereId(table, id, row) == IF RowExists(id) THEN [table EXCEPT ![id] = row] ELSE table

\* select count(*) from project_likes / post_likes where target = t.
RECURSIVE SumOver(_, _, _)
SumOver(table, t, us) ==
  IF us = {} THEN 0
  ELSE LET u == CHOOSE x \in us : TRUE
       IN table[<<t, u>>] + SumOver(table, t, us \ {u})

CountLikes(table, t) == SumOver(table, t, Users)

\* select count(*) from comments where project_id = p / post_id = q.
CountProjectComments(p) == Cardinality({c \in comments : c.projectId = p})
CountPostComments(q) == Cardinality({c \in comments : c.postId = q})

\* select count(*) from project_views where project_id = p.
CountViews(p) == projectViews[p]

\* ------------------------------------------------------- statement failure
\* Any statement may fail (the store is unavailable, the connection drops).
CanFail == failuresLeft > 0

\* ----------------------------------------------------------------- clients
Idle == [op |-> "idle", pc |-> "idle", target |-> Null, user |-> Null,
         cmt |-> Null, had |-> 0, rows |-> 0, delta |-> 0, ret |-> "none",
         result |-> Null]

Running == sync.pc \notin {"idle", "done"}

NoSync == [pc |-> "idle", mode |-> "idle", queue |-> <<>>, cur |-> Null,
           viewCountResult |-> 0, likeCountResult |-> 0, commentCountResult |-> 0,
           updatedCount |-> 0, projectsUpdated |-> 0, postsUpdated |-> 0,
           errors |-> <<>>, outcome |-> "none", touched |-> {}, endCalls |-> 0]
NoRun == [ok |-> FALSE]

\* A write to a normalized table: noted for the reconciler run in progress, and
\* it ends the "no intervening writes" stretch after a completed batch run.
RowWrite == /\ dirty' = (dirty \/ Running)
            /\ prev' = NoRun

Begin(c, op, t, u, pc, had) ==
  /\ client[c].pc = "idle"
  /\ calls < MaxCalls
  /\ calls' = calls + 1
  /\ client' = [client EXCEPT ![c] = [Idle EXCEPT !.op = op, !.pc = pc, !.target = t,
                                                   !.user = u, !.had = had]]
  /\ UNCHANGED <<store, now, sync, runsLeft, failuresLeft, dirty, prev>>

Finish(c, ret, rows, delta) ==
  client' = [client EXCEPT ![c].pc = "done", ![c].ret = ret,
                           ![c].rows = rows, ![c].delta = delta]

\* The handler has answered; the connection serves the next request.
Respond(c) ==
  /\ client[c].pc = "done"
  /\ client' = [client EXCEPT ![c] = Idle]
  /\ UNCHANGED <<store, now, sync, calls, runsLeft, failuresLeft, dirty, prev>>

Others == <<users, owner, now, sync, calls, runsLeft>>

\* The statement a handler is about to run fails: the handler ends with `ret`
\* (the value its catch returns, or "threw" when nothing catches).
Fail(c, ret) ==
  /\ CanFail
  /\ failuresLeft' = failuresLeft - 1
  /\ Finish(c, ret, client[c].rows, client[c].delta)
  /\ UNCHANGED <<store, now, sync, calls, runsLeft, dirty, prev>>

\* The insert a handler is about to run names a project or post that has no
\* row: the foreign key rejects it, and the handler ends as for any error.
Rejected(c, ret) ==
  /\ Finish(c, ret, client[c].rows, client[c].delta)
  /\ UNCHANGED <<store, now, sync, calls, runsLeft, failuresLeft, dirty, prev>>

\* set({ likeCount: sql`likeCount + 1` }) and its siblings: one atomic
\* statement relative to the stored value.
LikeDelta == 1
UnlikeDelta == -1
CommentDelta == 1
UncommentDelta == -1
ViewDelta == 1

\* Mutant: the new value is written outright instead of relative to the stored one.
AddLikeCountAbsolute(row, d) == [row EXCEPT !.likeCount = d]
AddLikeCount(row, d) == [row EXCEPT !.likeCount = @ + d]
AddCommentCount(row, d) == [row EXCEPT !.commentCount = @ + d]
AddViewCount(row, d) == [row EXCEPT !.viewCount = @ + d]

\* Mutant: the guard lets a delete that matched nothing through.
DeletedOrNot(rowCount) == rowCount >= 0
\* if (result.rowCount > 0)
Deleted(rowCount) == rowCount > 0

\* -- likeProject(projectId, userId)
LikeProjectCall(c) ==
  \E p \in Visited, u \in Users :
    Begin(c, "likeProject", p, u, "insert", RowCount(projectLikes, p, u))

LikeProjectInsert(c) ==
  /\ client[c].op = "likeProject" /\ client[c].pc = "insert"
  /\ \/ /\ RowExists(client[c].target)
        /\ projectLikes' = InsertPair(projectLikes, client[c].target, client[c].user)
        /\ client' = [client EXCEPT ![c].pc = "update", ![c].rows = 1]
        /\ RowWrite
        /\ UNCHANGED <<projects, communityPosts, projectBookmarks, postLikes, comments,
                       projectViews, nextCommentId, Others, failuresLeft>>
     \/ Fail(c, "false")                \* catch { return false }
     \/ (~RowExists(client[c].target) /\ Rejected(c, "false"))

LikeProjectUpdate(c) ==
  /\ client[c].op = "likeProject" /\ client[c].pc = "update"
  /\ \/ /\ projects' = WhereId(projects, client[c].target,
               AddLikeCount(projects[client[c].target], LikeDelta))
        /\ Finish(c, "true", client[c].rows, LikeDelta)
        /\ UNCHANGED <<communityPosts, projectLikes, projectBookmarks, postLikes, comments,
                       projectViews, nextCommentId, Others, failuresLeft, dirty, prev>>
     \/ Fail(c, "false")                \* catch { return false }

\* -- unlikeProject(projectId, userId)
UnlikeProjectCall(c) ==
  \E p \in Visited, u \in Users :
    Begin(c, "unlikeProject", p, u, "delete", RowCount(projectLikes, p, u))

UnlikeProjectDelete(c) ==
  /\ client[c].op = "unlikeProject" /\ client[c].pc = "delete"
  /\ \/ LET n == RowCount(projectLikes, client[c].target, client[c].user) IN
        /\ projectLikes' = DeletePair(projectLikes, client[c].target, client[c].user)
        /\ IF Deleted(n)
             THEN client' = [client EXCEPT ![c].pc = "update", ![c].rows = n]
             ELSE Finish(c, "false", n, 0)
        /\ IF n > 0 THEN RowWrite ELSE UNCHANGED <<dirty, prev>>
        /\ UNCHANGED <<projects, communityPosts, projectBookmarks, postLikes, comments,
                       projectViews, nextCommentId, Others, failuresLeft>>
     \/ Fail(c, "threw")

UnlikeProjectUpdate(c) ==
  /\ client[c].op = "unlikeProject" /\ client[c].pc = "update"
  /\ \/ /\ projects' = WhereId(projects, client[c].target,
               AddLikeCount(projects[client[c].target], UnlikeDelta))
        /\ Finish(c, "true", client[c].rows, UnlikeDelta)
        /\ UNCHANGED <<communityPosts, projectLikes, projectBookmarks, postLikes, comments,
                       projectViews, nextCommentId, Others, failuresLeft, dirty, prev>>
     \/ Fail(c, "threw")

\* -- bookmarkProject(projectId, userId) / unbookmarkProject(projectId, userId)
BookmarkProjectCall(c) ==
  \E p \in Visited, u \in Users :
    Begin(c, "bookmarkProject", p, u, "insert", RowCount(projectBookmarks, p, u))

\* Mutant: the bookmark keeps a cached counter the way a like does.
BookmarkProjectInsertCounted(c) ==
  /\ client[c].op = "bookmarkProject" /\ client[c].pc = "insert"
  /\ projectBookmarks' = InsertPair(projectBookmarks, client[c].target, client[c].user)
  /\ projects' = WhereId(projects, client[c].target,
         AddLikeCount(projects[client[c].target], LikeDelta))
  /\ Finish(c, "true", 1, 0)
  /\ UNCHANGED <<communityPosts, projectLikes, postLikes, comments,
                 projectViews, nextCommentId, Others, failuresLeft, dirty, prev>>

BookmarkProjectInsert(c) ==
  /\ client[c].op = "bookmarkProject" /\ client[c].pc = "insert"
  /\ \/ /\ RowExists(client[c].target)
        /\ projectBookmarks' = InsertPair(projectBookmarks, client[c].target, client[c].user)
        /\ Finish(c, "true", 1, 0)
        /\ UNCHANGED <<projects, communityPosts, projectLikes, postLikes, comments,
                       projectViews, nextCommentId, Others, failuresLeft, dirty, prev>>
     \/ Fail(c, "false")                \* catch { return false }
     \/ (~RowExists(client[c].target) /\ Rejected(c, "false"))

UnbookmarkProjectCall(c) ==
  \E p \in Visited, u \in Users :
    Begin(c, "unbookmarkProject", p, u, "delete", RowCount(projectBookmarks, p, u))

UnbookmarkProjectDelete(c) ==
  /\ client[c].op = "unbookmarkProject" /\ client[c].pc = "delete"
  /\ \/ LET n == RowCount(projectBookmarks, client[c].target, client[c].user) IN
        /\ projectBookmarks' = DeletePair(projectBookmarks, client[c].target, client[c].user)
        /\ Finish(c, IF Deleted(n) THEN "true" ELSE "false", n, 0)
        /\ UNCHANGED <<projects, communityPosts, projectLikes, postLikes, comments,
                       projectViews, nextCommentId, Others, failuresLeft, dirty, prev>>
     \/ Fail(c, "threw")

\* -- likeCommunityPost(postId, userId)
LikeCommunityPostCall(c) ==
  \E q \in Posts, u \in Users :
    Begin(c, "likeCommunityPost", q, u, "insert", RowCount(postLikes, q, u))

LikeCommunityPostInsert(c) ==
  /\ client[c].op = "likeCommunityPost" /\ client[c].pc = "insert"
  /\ \/ /\ RowExists(client[c].target)
        /\ postLikes' = InsertPair(postLikes, client[c].target, client[c].user)
        /\ client' = [client EXCEPT ![c].pc = "update", ![c].rows = 1]
        /\ RowWrite
        /\ UNCHANGED <<projects, communityPosts, projectLikes, projectBookmarks, comments,
                       projectViews, nextCommentId, Others, failuresLeft>>
     \/ Fail(c, "false")                \* catch { return false }
     \/ (~RowExists(client[c].target) /\ Rejected(c, "false"))

LikeCommunityPostUpdate(c) ==
  /\ client[c].op = "likeCommunityPost" /\ client[c].pc = "update"
  /\ \/ /\ communityPosts' = WhereId(communityPosts, client[c].target,
               AddLikeCount(communityPosts[client[c].target], LikeDelta))
        /\ Finish(c, "true", client[c].rows, LikeDelta)
        /\ UNCHANGED <<projects, projectLikes, projectBookmarks, postLikes, comments,
                       projectViews, nextCommentId, Others, failuresLeft, dirty, prev>>
     \/ Fail(c, "false")                \* catch { return false }

\* -- unlikeCommunityPost(postId, userId)
UnlikeCommunityPostCall(c) ==
  \E q \in Posts, u \in Users :
    Begin(c, "unlikeCommunityPost", q, u, "delete", RowCount(postLikes, q, u))

UnlikeCommunityPostDelete(c) ==
  /\ client[c].op = "unlikeCommunityPost" /\ client[c].pc = "delete"
  /\ \/ LET n == RowCount(postLikes, client[c].target, client[c].user) IN
        /\ postLikes' = DeletePair(postLikes, client[c].target, client[c].user)
        /\ IF Deleted(n)
             THEN client' = [client EXCEPT ![c].pc = "update", ![c].rows = n]
             ELSE Finish(c, "false", n, 0)
        /\ IF n > 0 THEN RowWrite ELSE UNCHANGED <<dirty, prev>>
        /\ UNCHANGED <<projects, communityPosts, projectLikes, projectBookmarks, comments,
                       projectViews, nextCommentId, Others, failuresLeft>>
     \/ Fail(c, "threw")

UnlikeCommunityPostUpdate(c) ==
  /\ client[c].op = "unlikeCommunityPost" /\ client[c].pc = "update"
  /\ \/ /\ communityPosts' = WhereId(communityPosts, client[c].target,
               AddLikeCount(communityPosts[client[c].target], UnlikeDelta))
        /\ Finish(c, "true", client[c].rows, UnlikeDelta)
        /\ UNCHANGED <<projects, projectLikes, projectBookmarks, postLikes, comments,
                       projectViews, nextCommentId, Others, failuresLeft, dirty, prev>>
     \/ Fail(c, "threw")

\* -- createComment(comment)
\* The storage layer takes whatever parent pair it is handed.
CommentInputs ==
  [projectId : Visited \cup {Null}, postId : Posts \cup {Null}, userId : Users]

NewComment(input) ==
  [id |-> nextCommentId, projectId |-> input.projectId, postId |-> input.postId,
   userId |-> input.userId]

\* if (comment.projectId) ... else if (comment.postId) ...
CommentParent(cmt) ==
  IF cmt.projectId # Null THEN "project"
  ELSE IF cmt.postId # Null THEN "post"
  ELSE "none"

\* comments.projectId / comments.postId reference projects.id /
\* communityPosts.id: a parent that is set must have a row.
ParentsExist(cmt) ==
  /\ cmt.projectId # Null => RowExists(cmt.projectId)
  /\ cmt.postId # Null => RowExists(cmt.postId)

CreateCommentCall(c) ==
  \E input \in CommentInputs :
    /\ client[c].pc = "idle"
    /\ calls < MaxCalls
    /\ calls' = calls + 1
    /\ client' = [client EXCEPT ![c] = [Idle EXCEPT !.op = "createComment", !.pc = "insert",
                                                     !.user = input.userId, !.cmt = input]]
    /\ UNCHANGED <<store, now, sync, runsLeft, failuresLeft, dirty, prev>>

CreateCommentInsert(c) ==
  /\ client[c].op = "createComment" /\ client[c].pc = "insert"
  /\ \/ LET row == NewComment(client[c].cmt) IN
        /\ ParentsExist(client[c].cmt)
        /\ comments' = comments \cup {row}
        /\ nextCommentId' = nextCommentId + 1
        /\ IF CommentParent(client[c].cmt) = "none"
             THEN client' = [client EXCEPT ![c].pc = "done", ![c].ret = "comment",
                                           ![c].rows = 1, ![c].cmt = row]
             ELSE client' = [client EXCEPT ![c].pc = "update", ![c].rows = 1, ![c].cmt = row]
        /\ RowWrite
        /\ UNCHANGED <<projects, communityPosts, projectLikes, projectBookmarks, postLikes,
                       projectViews, Others, failuresLeft>>
     \/ Fail(c, "threw")
     \/ (~ParentsExist(client[c].cmt) /\ Rejected(c, "threw"))

CreateCommentUpdate(c) ==
  /\ client[c].op = "createComment" /\ client[c].pc = "update"
  /\ \/ /\ IF CommentParent(client[c].cmt) = "project"
             THEN /\ projects' = WhereId(projects, client[c].cmt.projectId,
                         AddCommentCount(projects[client[c].cmt.projectId], CommentDelta))
                  /\ UNCHANGED communityPosts
             ELSE /\ communityPosts' = WhereId(communityPosts, client[c].cmt.postId,
                         AddCommentCount(communityPosts[client[c].cmt.postId], CommentDelta))
                  /\ UNCHANGED projects
        /\ Finish(c, "comment", client[c].rows, CommentDelta)
        /\ UNCHANGED <<projectLikes, projectBookmarks, postLikes, comments, projectViews,
                       nextCommentId, Others, failuresLeft, dirty, prev>>
     \/ Fail(c, "threw")

\* -- deleteComment(id, userId)
\* select ... where id = id and userId = userId
\* Mutant: the where clause drops the owner.
OwnedCommentAnyUser(id, u) == {c \in comments : c.id = id}
OwnedComment(id, u) == {c \in comments : c.id = id /\ c.userId = u}

DeleteCommentCall(c) ==
  \E id \in 1..nextCommentId, u \in Users :
    Begin(c, "deleteComment", id, u, "select", Cardinality(OwnedComment(id, u)))

DeleteCommentSelect(c) ==
  /\ client[c].op = "deleteComment" /\ client[c].pc = "select"
  /\ \/ LET found == OwnedComment(client[c].target, client[c].user) IN
        /\ IF found = {}
             THEN Finish(c, "false", 0, 0)           \* if (!comment) return false
             ELSE client' = [client EXCEPT ![c].pc = "delete",
                                           ![c].cmt = CHOOSE x \in found : TRUE]
        /\ UNCHANGED <<store, Others, failuresLeft, dirty, prev>>
     \/ Fail(c, "threw")

DeleteCommentDelete(c) ==
  /\ client[c].op = "deleteComment" /\ client[c].pc = "delete"
  /\ \/ LET gone == OwnedComment(client[c].target, client[c].user)
            n == Cardinality(gone) IN
        /\ comments' = comments \ gone
        /\ IF ~Deleted(n) THEN Finish(c, "false", 0, 0)
           ELSE IF CommentParent(client[c].cmt) = "none" THEN Finish(c, "true", n, 0)
           ELSE client' = [client EXCEPT ![c].pc = "update", ![c].rows = n]
        /\ IF n > 0 THEN RowWrite ELSE UNCHANGED <<dirty, prev>>
        /\ UNCHANGED <<projects, communityPosts, projectLikes, projectBookmarks, postLikes,
                       projectViews, nextCommentId, Others, failuresLeft>>
     \/ Fail(c, "threw")

DeleteCommentUpdate(c) ==
  /\ client[c].op = "deleteComment" /\ client[c].pc = "update"
  /\ \/ /\ IF CommentParent(client[c].cmt) = "project"
             THEN /\ projects' = WhereId(projects, client[c].cmt.projectId,
                         AddCommentCount(projects[client[c].cmt.projectId], UncommentDelta))
                  /\ UNCHANGED communityPosts
             ELSE /\ communityPosts' = WhereId(communityPosts, client[c].cmt.postId,
                         AddCommentCount(communityPosts[client[c].cmt.postId], UncommentDelta))
                  /\ UNCHANGED projects
        /\ Finish(c, "true", client[c].rows, UncommentDelta)
        /\ UNCHANGED <<projectLikes, projectBookmarks, postLikes, comments, projectViews,
                       nextCommentId, Others, failuresLeft, dirty, prev>>
     \/ Fail(c, "threw")

\* -- trackProjectView(projectId, userId, ipAddress)
TrackProjectViewCall(c) ==
  \E p \in Visited : Begin(c, "trackProjectView", p, Null, "insert", 0)

TrackProjectViewInsert(c) ==
  /\ client[c].op = "trackProjectView" /\ client[c].pc = "insert"
  /\ \/ /\ projectViews' = [projectViews EXCEPT ![client[c].target] = @ + 1]
        /\ client' = [client EXCEPT ![c].pc = "update", ![c].rows = 1]
        /\ RowWrite
        /\ UNCHANGED <<projects, communityPosts, projectLikes, projectBookmarks, postLikes,
                       comments, nextCommentId, Others, failuresLeft>>
     \/ Fail(c, "threw")

TrackProjectViewUpdate(c) ==
  /\ client[c].op = "trackProjectView" /\ client[c].pc = "update"
  /\ \/ /\ projects' = WhereId(projects, client[c].target,
               AddViewCount(projects[client[c].target], ViewDelta))
        /\ Finish(c, "void", client[c].rows, ViewDelta)
        /\ UNCHANGED <<communityPosts, projectLikes, projectBookmarks, postLikes, comments,
                       projectViews, nextCommentId, Others, failuresLeft, dirty, prev>>
     \/ Fail(c, "threw")

\* -- incrementProjectViews(id): the view counter is raised by one relative
\* update; the method writes no projectViews row.
IncrementProjectViewsCall(c) ==
  \E p \in Visited : Begin(c, "incrementProjectViews", p, Null, "update", 0)

IncrementProjectViewsUpdate(c) ==
  /\ client[c].op = "incrementProjectViews" /\ client[c].pc = "update"
  /\ \/ /\ projects' = WhereId(projects, client[c].target,
               AddViewCount(projects[client[c].target], ViewDelta))
        /\ Finish(c, "void", client[c].rows, ViewDelta)
        /\ UNCHANGED <<communityPosts, projectLikes, projectBookmarks, postLikes, comments,
                       projectViews, nextCommentId, Others, failuresLeft, dirty, prev>>
     \/ Fail(c, "threw")

\* -- deleteProject(id, userId) / deleteCommunityPost(id, userId): one delete
\* statement, where id = id and userId = userId. The rows of project_likes,
\* project_bookmarks, post_likes and comments that reference the deleted row
\* go with it (onDelete: 'cascade').
\* Mutant: the referencing rows stay.
CascadePairsKept(table, e) == table
CascadePairs(table, e) == [x \in DOMAIN table |-> IF x[1] = e THEN 0 ELSE table[x]]

CascadeComments(e) == {x \in comments : x.projectId # e /\ x.postId # e}

\* Mutant: the where clause drops the owner.
OwnedByAnyone(e, u) == RowExists(e)
\* and(eq(table.id, id), eq(table.userId, userId)) matches a row.
OwnedBy(e, u) == RowExists(e) /\ owner[e] = u

DeleteProjectCall(c) ==
  \E p \in Visited, u \in Users :
    Begin(c, "deleteProject", p, u, "delete", IF OwnedBy(p, u) THEN 1 ELSE 0)

DeleteProjectDelete(c) ==
  /\ client[c].op = "deleteProject" /\ client[c].pc = "delete"
  /\ \/ LET p == client[c].target IN
        IF OwnedBy(p, client[c].user)
          THEN /\ owner' = [owner EXCEPT ![p] = Null]
               /\ projects' = [projects EXCEPT ![p] = NewProject]
               /\ projectLikes' = CascadePairs(projectLikes, p)
               /\ projectBookmarks' = CascadePairs(projectBookmarks, p)
               /\ comments' = CascadeComments(p)
               /\ Finish(c, "true", 1, 0)           \* return result.rowCount > 0
               /\ RowWrite
               /\ UNCHANGED <<communityPosts, postLikes, projectViews, nextCommentId, users,
                              now, sync, calls, runsLeft, failuresLeft>>
          ELSE /\ Finish(c, "false", 0, 0)
               /\ UNCHANGED <<store, now, sync, calls, runsLeft, failuresLeft, dirty, prev>>
     \/ Fail(c, "threw")

DeleteCommunityPostCall(c) ==
  \E q \in Posts, u \in Users :
    Begin(c, "deleteCommunityPost", q, u, "delete", IF OwnedBy(q, u) THEN 1 ELSE 0)

DeleteCommunityPostDelete(c) ==
  /\ client[c].op = "deleteCommunityPost" /\ client[c].pc = "delete"
  /\ \/ LET q == client[c].target IN
        IF OwnedBy(q, client[c].user)
          THEN /\ owner' = [owner EXCEPT ![q] = Null]
               /\ communityPosts' = [communityPosts EXCEPT ![q] = NewPost]
               /\ postLikes' = CascadePairs(postLikes, q)
               /\ comments' = CascadeComments(q)
               /\ Finish(c, "true", 1, 0)
               /\ RowWrite
               /\ UNCHANGED <<projects, projectLikes, projectBookmarks, projectViews,
                              nextCommentId, users, now, sync, calls, runsLeft, failuresLeft>>
          ELSE /\ Finish(c, "false", 0, 0)
               /\ UNCHANGED <<store, now, sync, calls, runsLeft, failuresLeft, dirty, prev>>
     \/ Fail(c, "threw")

\* -- read methods: one select each, returning the columns of the rows it
\* matches. Rows that exist are those with an owner.
Existing(S) == {e \in S : owner[e] # Null}

\* Mutant: the read recounts the like rows instead of returning the column.
ProjectProjectionRecounted(p) ==
  [id |-> p, viewCount |-> projects[p].viewCount,
   likeCount |-> CountLikes(projectLikes, p),
   commentCount |-> projects[p].commentCount, userId |-> owner[p]]
\* select({ id, ..., viewCount, likeCount, commentCount, userId, ... })
ProjectProjection(p) ==
  [id |-> p, viewCount |-> projects[p].viewCount, likeCount |-> projects[p].likeCount,
   commentCount |-> projects[p].commentCount, userId |-> owner[p]]

\* select({ id, ..., likeCount, commentCount, userId, ... })
PostProjection(q) ==
  [id |-> q, likeCount |-> communityPosts[q].likeCount,
   commentCount |-> communityPosts[q].commentCount, userId |-> owner[q]]

\* The one statement of a read: it returns `found` and writes nothing; a
\* failing select rejects.
ReadSelect(c, op, found) ==
  /\ client[c].op = op /\ client[c].pc = "select"
  /\ \/ /\ client' = [client EXCEPT ![c].pc = "done", ![c].ret = "rows",
                                      ![c].result = found]
        /\ UNCHANGED <<store, now, sync, calls, runsLeft, failuresLeft, dirty, prev>>
     \/ Fail(c, "threw")

\* const [project] = await db.select(...).where(eq(projects.id, id))
GetProjectCall(c) == \E p \in Projects : Begin(c, "getProject", p, Null, "select", 0)
GetProjectSelect(c) ==
  ReadSelect(c, "getProject",
             {ProjectProjection(p) : p \in Existing({client[c].target} \cap Projects)})

\* getProjects(): no filter, every row.
GetProjectsCall(c) == Begin(c, "getProjects", Null, Null, "select", 0)
GetProjectsSelect(c) ==
  ReadSelect(c, "getProjects", {ProjectProjection(p) : p \in Existing(Projects)})

\* .where(eq(projects.userId, userId))
GetUserProjectsCall(c) == \E u \in Users : Begin(c, "getUserProjects", Null, u, "select", 0)
GetUserProjectsSelect(c) ==
  ReadSelect(c, "getUserProjects",
             {ProjectProjection(p) : p \in {x \in Existing(Projects) : owner[x] = client[c].user}})

GetCommunityPostCall(c) == \E q \in Posts : Begin(c, "getCommunityPost", q, Null, "select", 0)
GetCommunityPostSelect(c) ==
  ReadSelect(c, "getCommunityPost",
             {PostProjection(q) : q \in Existing({client[c].target} \cap Posts)})

\* getCommunityPosts(page = 1, limit = 10): the first page holds every post.
GetCommunityPostsCall(c) == Begin(c, "getCommunityPosts", Null, Null, "select", 0)
GetCommunityPostsSelect(c) ==
  ReadSelect(c, "getCommunityPosts", {PostProjection(q) : q \in Existing(Posts)})

ReadStep(c) ==
  \/ GetProjectCall(c) \/ GetProjectSelect(c)
  \/ GetProjectsCall(c) \/ GetProjectsSelect(c)
  \/ GetUserProjectsCall(c) \/ GetUserProjectsSelect(c)
  \/ GetCommunityPostCall(c) \/ GetCommunityPostSelect(c)
  \/ GetCommunityPostsCall(c) \/ GetCommunityPostsSelect(c)

\* -------------------------------------------------------------- reconciler
\* db.select({ id }).from(projects): every row, in no stated order.
Orders(S) == {q \in [1..Cardinality(S) -> S] : \A i, j \in 1..Cardinality(S) :
                                                  q[i] = q[j] => i = j}

Counters(row) == [r \in DOMAIN row \ {"countsLastUpdated"} |-> row[r]]
CachedProjects == [p \in Projects |-> Counters(projects[p])]
CachedPosts == [q \in Posts |-> Counters(communityPosts[q])]

SyncUnchanged == <<client, calls, failuresLeft, prev>>
Normalized == <<projectLikes, projectBookmarks, postLikes, comments, projectViews,
                nextCommentId, users, owner>>

StartSync(mode, pc, cur) ==
  /\ sync.pc = "idle"
  /\ runsLeft > 0
  /\ runsLeft' = runsLeft - 1
  /\ sync' = [NoSync EXCEPT !.mode = mode, !.pc = pc, !.cur = cur]
  /\ dirty' = FALSE
  /\ UNCHANGED <<store, now, SyncUnchanged>>

SyncAllCountsCall == StartSync("all", "selectProjects", Null)
SyncSingleProjectCountsCall(p) == StartSync("singleProject", "projectViews", p)
SyncSinglePostCountsCall(q) == StartSync("singlePost", "postLikes", q)

\* The error path of the invocation in progress. syncProjectCounts and
\* syncCommunityPostCounts log and rethrow; syncAllCounts catches, pushes one
\* entry and returns its result as it stands; the single-entity functions
\* log and rethrow to their caller.
Thrown(sy) ==
  IF sy.mode = "all"
    THEN [sy EXCEPT !.pc = "done", !.outcome = "returned", !.endCalls = calls,
                    !.errors = Append(@, "Batch sync failed")]
    ELSE [sy EXCEPT !.pc = "done", !.outcome = "threw", !.endCalls = calls]

SyncFail ==
  /\ CanFail
  /\ failuresLeft' = failuresLeft - 1
  /\ sync' = Thrown(sync)
  /\ UNCHANGED <<store, now, client, calls, runsLeft, dirty, prev>>

SyncStep(next) ==
  /\ sync' = next
  /\ UNCHANGED <<store, now, client, calls, runsLeft, failuresLeft, dirty, prev>>

\* After an entity's update: the next entity of the loop, or the end of the
\* function that runs the loop.
AfterProject(sy) ==
  IF sy.mode = "singleProject"
    THEN [sy EXCEPT !.pc = "done", !.outcome = "returned", !.endCalls = calls]
  ELSE LET n == sy.updatedCount + 1 IN
       IF sy.queue # <<>>
         THEN [sy EXCEPT !.updatedCount = n, !.cur = Head(sy.queue),
                         !.queue = Tail(sy.queue), !.pc = "projectViews"]
         ELSE [sy EXCEPT !.updatedCount = 0, !.projectsUpdated = n, !.cur = Null,
                         !.pc = "selectPosts"]

AfterPost(sy) ==
  IF sy.mode = "singlePost"
    THEN [sy EXCEPT !.pc = "done", !.outcome = "returned", !.endCalls = calls]
  ELSE LET n == sy.updatedCount + 1 IN
       IF sy.queue # <<>>
         THEN [sy EXCEPT !.updatedCount = n, !.cur = Head(sy.queue),
                         !.queue = Tail(sy.queue), !.pc = "postLikes"]
         ELSE [sy EXCEPT !.updatedCount = 0, !.postsUpdated = n, !.cur = Null,
                         !.pc = "done", !.outcome = "returned", !.endCalls = calls]

SelectProjects ==
  /\ sync.pc = "selectProjects"
  /\ \/ \E q \in Orders(Projects) :
          SyncStep([sync EXCEPT !.cur = Head(q), !.queue = Tail(q), !.pc = "projectViews"])
     \/ SyncFail

ProjectViewCount ==
  /\ sync.pc = "projectViews"
  /\ \/ SyncStep([sync EXCEPT !.viewCountResult = CountViews(sync.cur), !.pc = "projectLikes"])
     \/ SyncFail

ProjectLikeCount ==
  /\ sync.pc = "projectLikes"
  /\ \/ SyncStep([sync EXCEPT !.likeCountResult = CountLikes(projectLikes, sync.cur),
                              !.pc = "projectComments"])
     \/ SyncFail

ProjectCommentCount ==
  /\ sync.pc = "projectComments"
  /\ \/ SyncStep([sync EXCEPT !.commentCountResult = CountProjectComments(sync.cur),
                              !.pc = "projectUpdate"])
     \/ SyncFail

\* Mutant: the like count is written into the wrong column's place.
ProjectOverwriteMixed(sy, stamp) ==
  [viewCount |-> sy.viewCountResult, likeCount |-> sy.commentCountResult,
   commentCount |-> sy.commentCountResult, countsLastUpdated |-> stamp]
\* Mutant: the recount is added to the cached value instead of replacing it.
ProjectOverwriteAdded(sy, stamp) ==
  [viewCount |-> sy.viewCountResult,
   likeCount |-> projects[sy.cur].likeCount + sy.likeCountResult,
   commentCount |-> sy.commentCountResult, countsLastUpdated |-> stamp]
\* Mutant: the overwrite leaves countsLastUpdated as it was.
ProjectOverwriteUnstamped(sy, stamp) ==
  [viewCount |-> sy.viewCountResult, likeCount |-> sy.likeCountResult,
   commentCount |-> sy.commentCountResult,
   countsLastUpdated |-> projects[sy.cur].countsLastUpdated]
\* set({ viewCount, likeCount, commentCount, countsLastUpdated: new Date() })
ProjectOverwrite(sy, stamp) ==
  [viewCount |-> sy.viewCountResult, likeCount |-> sy.likeCountResult,
   commentCount |-> sy.commentCountResult, countsLastUpdated |-> stamp]

ProjectUpdate ==
  /\ sync.pc = "projectUpdate"
  /\ \/ /\ projects' = WhereId(projects, sync.cur, ProjectOverwrite(sync, now))
        /\ now' = now + 1
        /\ sync' = AfterProject([sync EXCEPT !.touched = @ \cup {sync.cur}])
        /\ UNCHANGED <<communityPosts, Normalized, client, calls, runsLeft, failuresLeft,
                       dirty, prev>>
     \/ SyncFail

SelectPosts ==
  /\ sync.pc = "selectPosts"
  /\ \/ \E q \in Orders(Posts) :
          SyncStep([sync EXCEPT !.cur = Head(q), !.queue = Tail(q), !.pc = "postLikes"])
     \/ SyncFail

PostLikeCount ==
  /\ sync.pc = "postLikes"
  /\ \/ SyncStep([sync EXCEPT !.likeCountResult = CountLikes(postLikes, sync.cur),
                              !.pc = "postComments"])
     \/ SyncFail

PostCommentCount ==
  /\ sync.pc = "postComments"
  /\ \/ SyncStep([sync EXCEPT !.commentCountResult = CountPostComments(sync.cur),
                              !.pc = "postUpdate"])
     \/ SyncFail

\* Mutant: the overwrite keeps the cached likeCount it found.
PostOverwriteKeepsLikes(sy, stamp) ==
  [likeCount |-> communityPosts[sy.cur].likeCount,
   commentCount |-> sy.commentCountResult, countsLastUpdated |-> stamp]
\* set({ likeCount, commentCount, countsLastUpdated: new Date() })
PostOverwrite(sy, stamp) ==
  [likeCount |-> sy.likeCountResult, commentCount |-> sy.commentCountResult,
   countsLastUpdated |-> stamp]

PostUpdate ==
  /\ sync.pc = "postUpdate"
  /\ \/ /\ communityPosts' = WhereId(communityPosts, sync.cur, PostOverwrite(sync, now))
        /\ now' = now + 1
        /\ sync' = AfterPost([sync EXCEPT !.touched = @ \cup {sync.cur}])
        /\ UNCHANGED <<projects, Normalized, client, calls, runsLeft, failuresLeft, dirty, prev>>
     \/ SyncFail

\* The invocation has returned (or thrown) to whoever started it.
\* runSync: const result = await syncAllCounts(); process.exit(0), and
\* process.exit(1) in the catch.
\* Mutant: the script exits by the errors list of the result.
ExitStatusByErrors(sy) == IF sy.outcome = "returned" /\ sy.errors = <<>> THEN 0 ELSE 1
ExitStatus(sy) == IF sy.outcome = "returned" THEN 0 ELSE 1

SyncReturn ==
  /\ sync.pc = "done"
  /\ prev' = IF sync.mode = "all"
               THEN [ok |-> TRUE, projects |-> CachedProjects, posts |-> CachedPosts,
                     projectsUpdated |-> sync.projectsUpdated,
                     postsUpdated |-> sync.postsUpdated, errors |-> sync.errors,
                     outcome |-> sync.outcome, exit |-> ExitStatus(sync)]
               ELSE prev
  /\ sync' = NoSync
  /\ UNCHANGED <<store, now, client, calls, runsLeft, failuresLeft, dirty>>

\* The statements of one entity's recomputation, shared by every entry point.
EntitySteps ==
  \/ ProjectViewCount \/ ProjectLikeCount \/ ProjectCommentCount \/ ProjectUpdate
  \/ PostLikeCount \/ PostCommentCount \/ PostUpdate
  \/ SyncReturn

\* The reconciler on its own: the batch and both single-entity entry points.
SyncNext ==
  \/ SyncAllCountsCall
  \/ \E p \in Projects : SyncSingleProjectCountsCall(p)
  \/ \E q \in Posts : SyncSinglePostCountsCall(q)
  \/ SelectProjects \/ SelectPosts
  \/ EntitySteps

\* The reconciler beside live traffic: a targeted recompute of an entity the
\* requests name.
LiveSyncNext ==
  \/ \E p \in Visited : SyncSingleProjectCountsCall(p)
  \/ \E q \in Posts : SyncSinglePostCountsCall(q)
  \/ EntitySteps

\* Freshly created projects and posts, nothing liked, bookmarked, viewed or
\* commented yet, no request and no reconciler invocation in progress.
FreshStore ==
  /\ projects = [p \in Projects |-> NewProject]
  /\ communityPosts = [q \in Posts |-> NewPost]
  /\ projectLikes = [x \in Projects \X Users |-> 0]
  /\ projectBookmarks = [x \in Projects \X Users |-> 0]
  /\ postLikes = [x \in Posts \X Users |-> 0]
  /\ comments = {}
  /\ projectViews = [p \in Projects |-> 0]
  /\ nextCommentId = 1
  /\ users = Users
  /\ owner = [e \in Projects \cup Posts |-> Author]

AtRest ==
  /\ now = 1
  /\ client = [c \in Clients |-> Idle]
  /\ sync = NoSync
  /\ calls = 0
  /\ dirty = FALSE
  /\ prev = NoRun

Init ==
  /\ FreshStore
  /\ AtRest
  /\ runsLeft = MaxSyncRuns
  /\ failuresLeft = MaxFailures

ClientStep(c) ==
  \/ LikeProjectCall(c) \/ LikeProjectInsert(c) \/ LikeProjectUpdate(c)
  \/ UnlikeProjectCall(c) \/ UnlikeProjectDelete(c) \/ UnlikeProjectUpdate(c)
  \/ BookmarkProjectCall(c) \/ BookmarkProjectInsert(c)
  \/ UnbookmarkProjectCall(c) \/ UnbookmarkProjectDelete(c)
  \/ LikeCommunityPostCall(c) \/ LikeCommunityPostInsert(c) \/ LikeCommunityPostUpdate(c)
  \/ UnlikeCommunityPostCall(c) \/ UnlikeCommunityPostDelete(c)
  \/ UnlikeCommunityPostUpdate(c)
  \/ CreateCommentCall(c) \/ CreateCommentInsert(c) \/ CreateCommentUpdate(c)
  \/ DeleteCommentCall(c) \/ DeleteCommentSelect(c) \/ DeleteCommentDelete(c)
  \/ DeleteCommentUpdate(c)
  \/ TrackProjectViewCall(c) \/ TrackProjectViewInsert(c) \/ TrackProjectViewUpdate(c)
  \/ Respond(c)

Next == (\E c \in Clients : ClientStep(c)) \/ LiveSyncNext

Spec == Init /\ [][Next]_vars

\* ------------------------------------------------ the reconciler on its own
\* A store that has drifted: rows written without their counter (a seed, an
\* interrupted request) and counters without their row. The visited project
\* starts from any small combination; the bystanders from a seeded state whose
\* counters were never maintained.
DriftedComments(withP1) ==
  (IF withP1 THEN {[id |-> 1, projectId |-> "p1", postId |-> Null, userId |-> "u1"]}
             ELSE {})
  \cup {[id |-> 2, projectId |-> Null, postId |-> "q1", userId |-> "u2"]}

InitSync ==
  /\ \E v, l, k \in 0..MaxDrift :
       projects = [p \in Projects |->
                     IF p \in Visited
                       THEN [viewCount |-> v, likeCount |-> l, commentCount |-> k,
                             countsLastUpdated |-> 0]
                       ELSE NewProject]
  /\ communityPosts = [q \in Posts |-> NewPost]
  /\ \E mine \in [Visited \X Users -> 0..1] :
       projectLikes = [x \in Projects \X Users |->
                         IF x[1] \in Visited THEN mine[x] ELSE IF x[2] = "u1" THEN 1 ELSE 0]
  /\ projectBookmarks = [x \in Projects \X Users |-> 0]
  /\ postLikes = [x \in Posts \X Users |-> 1]
  /\ \E withP1 \in BOOLEAN : comments = DriftedComments(withP1)
  /\ \E n \in 0..1 : projectViews = [p \in Projects |-> IF p \in Visited THEN n ELSE 1]
  /\ nextCommentId = 3
  /\ users = Users
  /\ owner = [e \in Projects \cup Posts |-> Author]
  /\ AtRest
  /\ runsLeft = MaxBatchRuns
  /\ failuresLeft = MaxFailures

SpecSync == InitSync /\ [][SyncNext]_vars

\* ------------------------------------------- concurrent likes, no failures
InitLikes ==
  /\ FreshStore
  /\ AtRest
  /\ runsLeft = 0
  /\ failuresLeft = 0

LikesNext ==
  \E c \in Clients :
    \/ LikeProjectCall(c) \/ LikeProjectInsert(c) \/ LikeProjectUpdate(c)
    \/ LikeCommunityPostCall(c) \/ LikeCommunityPostInsert(c) \/ LikeCommunityPostUpdate(c)

SpecLikes == InitLikes /\ [][LikesNext]_vars

\* The view-recording calls of the storage layer, with the reconciler beside
\* them and no failing statement.
InitViews ==
  /\ FreshStore
  /\ AtRest
  /\ runsLeft = MaxSyncRuns
  /\ failuresLeft = 0

ViewsNext ==
  \/ \E c \in Clients :
       \/ TrackProjectViewCall(c) \/ TrackProjectViewInsert(c) \/ TrackProjectViewUpdate(c)
       \/ IncrementProjectViewsCall(c) \/ IncrementProjectViewsUpdate(c)
       \/ Respond(c)
  \/ LiveSyncNext

SpecViews == InitViews /\ [][ViewsNext]_vars

\* Reads of drifted counters, with the single-entity reconciler beside them.
ReadsNext ==
  \/ \E c \in Clients : ReadStep(c) \/ Respond(c)
  \/ LiveSyncNext

\* Like rows that were inserted directly: every project and post has one like
\* row and a cached likeCount of 0.
InitReads ==
  /\ projects = [p \in Projects |-> NewProject]
  /\ communityPosts = [q \in Posts |-> NewPost]
  /\ projectLikes = [x \in Projects \X Users |-> IF x[2] = Author THEN 0 ELSE 1]
  /\ projectBookmarks = [x \in Projects \X Users |-> 0]
  /\ postLikes = [x \in Posts \X Users |-> IF x[2] = Author THEN 0 ELSE 1]
  /\ comments = {}
  /\ projectViews = [p \in Projects |-> 0]
  /\ nextCommentId = 1
  /\ users = Users
  /\ owner = [e \in Projects \cup Posts |-> Author]
  /\ AtRest
  /\ runsLeft = MaxSyncRuns
  /\ failuresLeft = MaxFailures

SpecReads == InitReads /\ [][ReadsNext]_vars

\* Deletes of projects and posts beside the inserts that reference them. The
\* visited project and the post each start with one like, one comment (and,
\* for the project, one bookmark), all by a user who is not the author.
Liker == CHOOSE u \in Users : u # Author

InitDelete ==
  /\ projects = [p \in Projects |->
                   IF p \in Visited THEN [NewProject EXCEPT !.likeCount = 1, !.commentCount = 1]
                                    ELSE NewProject]
  /\ communityPosts = [q \in Posts |-> [NewPost EXCEPT !.likeCount = 1, !.commentCount = 1]]
  /\ projectLikes = [x \in Projects \X Users |->
                       IF x[1] \in Visited /\ x[2] = Liker THEN 1 ELSE 0]
  /\ projectBookmarks = [x \in Projects \X Users |->
                           IF x[1] \in Visited /\ x[2] = Liker THEN 1 ELSE 0]
  /\ postLikes = [x \in Posts \X Users |-> IF x[2] = Liker THEN 1 ELSE 0]
  /\ comments = {[id |-> 1, projectId |-> "p1", postId |-> Null, userId |-> Liker],
                 [id |-> 2, projectId |-> Null, postId |-> "q1", userId |-> Liker]}
  /\ projectViews = [p \in Projects |-> 0]
  /\ nextCommentId = 3
  /\ users = Users
  /\ owner = [e \in Projects \cup Posts |-> Author]
  /\ AtRest
  /\ runsLeft = 0
  /\ failuresLeft = MaxFailures

DeleteNext ==
  \E c \in Clients :
    \/ DeleteProjectCall(c) \/ DeleteProjectDelete(c)
    \/ DeleteCommunityPostCall(c) \/ DeleteCommunityPostDelete(c)
    \/ LikeProjectCall(c) \/ LikeProjectInsert(c) \/ LikeProjectUpdate(c)
    \/ BookmarkProjectCall(c) \/ BookmarkProjectInsert(c)
    \/ CreateCommentCall(c) \/ CreateCommentInsert(c) \/ CreateCommentUpdate(c)
    \/ Respond(c)

SpecDelete == InitDelete /\ [][DeleteNext]_vars

\* ------------------------------------------------------------- properties
LikeRows(table, t) == SumOver(table, t, Users)

ProjectConsistent(p) ==
  /\ projects[p].likeCount = LikeRows(projectLikes, p)
  /\ projects[p].commentCount = Cardinality({c \in comments : c.projectId = p})
  /\ projects[p].viewCount = projectViews[p]

PostConsistent(q) ==
  /\ communityPosts[q].likeCount = LikeRows(postLikes, q)
  /\ communityPosts[q].commentCount = Cardinality({c \in comments : c.postId = q})

Consistent(e) == IF e \in Projects THEN ProjectConsistent(e) ELSE PostConsistent(e)

Quiescent == \A c \in Clients : client[c].pc \in {"idle", "done"}

NoFailureYet == failuresLeft = MaxFailures

\* C1 (as claimed): no cached counter of any project or post is ever negative.
C1_NonNegative ==
  /\ \A p \in Projects : /\ projects[p].likeCount >= 0
                         /\ projects[p].commentCount >= 0
                         /\ projects[p].viewCount >= 0
  /\ \A q \in Posts : /\ communityPosts[q].likeCount >= 0
                      /\ communityPosts[q].commentCount >= 0

\* C2 (as claimed): at most one like row and one bookmark row per
\* (project, user) pair and at most one like row per (post, user) pair.
C2_RowUniqueness ==
  /\ \A x \in Projects \X Users : projectLikes[x] <= 1 /\ projectBookmarks[x] <= 1
  /\ \A x \in Posts \X Users : postLikes[x] <= 1

\* C3 (as claimed): a like by a user who already has a like row on the target
\* returns false, adds no row and leaves the cached likeCount alone.
C3_DuplicateLikeNoOp ==
  \A c \in Clients :
    (/\ client[c].op \in {"likeProject", "likeCommunityPost"}
     /\ client[c].pc = "done"
     /\ client[c].had > 0)
    => (client[c].ret = "false" /\ client[c].rows = 0 /\ client[c].delta = 0)

UnlikeStepExact(c, table, tableNext, cached, cachedNext) ==
  LET t == client[c].target
      u == client[c].user
      ended == client'[c].pc = "done" /\ client'[c].ret # "threw"
  IN /\ (client[c].pc = "delete" /\ client'[c].pc # "delete" /\ client'[c].ret # "threw")
          => /\ tableNext = [table EXCEPT ![<<t, u>>] = 0]
             /\ cachedNext = cached
             /\ comments' = comments /\ projectViews' = projectViews
             /\ (ended <=> table[<<t, u>>] = 0)
             /\ (ended => client'[c].ret = "false" /\ tableNext = table)
     /\ (client[c].pc = "update" /\ ended)
          => /\ client[c].rows > 0
             /\ tableNext = table
             /\ cachedNext = [cached EXCEPT ![t].likeCount = @ - 1]
             /\ client'[c].ret = "true"
     /\ (client[c].pc = "update" /\ client'[c].ret = "threw")
          => (tableNext = table /\ cachedNext = cached)

C7_SafeWithLiveTraffic ==
  (/\ sync.pc = "done"
   /\ sync.outcome = "returned" /\ sync.errors = <<>>
   /\ NoFailureYet
   /\ Quiescent
   /\ calls = sync.endCalls)
  => \A e \in sync.touched : Consistent(e)

\* C5: the calls of all clients name one target, come from distinct users and
\* have all returned (no statement fails under SpecLikes): every call returned
\* true, the target has one like row per call and its likeCount equals the
\* number of calls.
CallsOn(op, t) == {c \in Clients : client[c].op = op /\ client[c].target = t}

ConcurrentLikesCounted(op, t, table, cached) ==
  LET callers == CallsOn(op, t) IN
  (/\ callers # {}
   /\ \A c \in callers : client[c].pc = "done"
   /\ \A c, d \in callers : client[c].user = client[d].user => c = d)
  => /\ \A c \in callers : client[c].ret = "true"
     /\ LikeRows(table, t) = Cardinality(callers)
     /\ cached[t].likeCount = Cardinality(callers)

C5_ConcurrentLikes ==
  /\ \A p \in Projects : ConcurrentLikesCounted("likeProject", p, projectLikes, projects)
  /\ \A q \in Posts : ConcurrentLikesCounted("likeCommunityPost", q, postLikes, communityPosts)

\* C5 witness: every client has liked the same project, each as another user.
C5_Witness ==
  \E p \in Projects :
    /\ CallsOn("likeProject", p) = Clients
    /\ \A c \in Clients : client[c].pc = "done"
    /\ \A c, d \in Clients : client[c].user = client[d].user => c = d
    /\ projects[p].likeCount = Cardinality(Clients)

\* C6: a reconciler invocation that ran to completion with no failure (and,
\* under SpecSync, no concurrent write) leaves the entity it was called for,
\* or every project and post for syncAllCounts, with cached counters equal to
\* the row counts.
C6_Convergence ==
  (sync.pc = "done" /\ sync.outcome = "returned" /\ sync.errors = <<>>)
  => /\ sync.mode = "singleProject" => ProjectConsistent(sync.cur)
     /\ sync.mode = "singlePost" => PostConsistent(sync.cur)
     /\ sync.mode = "all" => \A e \in Projects \cup Posts : Consistent(e)

\* C6 witness: syncSingleProjectCounts has returned for a project whose two like
\* rows no starting counter matched, and the cached likeCount is now 2.
C6_Witness ==
  /\ sync.pc = "done" /\ sync.mode = "singleProject" /\ sync.outcome = "returned"
  /\ LikeRows(projectLikes, sync.cur) = 2
  /\ projects[sync.cur].likeCount = 2
  /\ projects[sync.cur].countsLastUpdated > 0

\* C8 (as claimed): a second syncAllCounts with no write in between leaves the
\* counters as the first left them and reports the same two numbers.
SameAsPrevious ==
  /\ CachedProjects = prev.projects
  /\ CachedPosts = prev.posts
  /\ sync.projectsUpdated = prev.projectsUpdated
  /\ sync.postsUpdated = prev.postsUpdated

C9_FailureIsolation ==
  (sync.mode = "all" /\ sync.pc = "done" /\ sync.errors # <<>> /\ sync.cur # Null)
  => \A e \in (Projects \cup Posts) \ {sync.cur} : e \in sync.touched

\* C10 (as claimed): the summary counts exactly the entities overwritten.
C10_SummaryExact ==
  (sync.mode = "all" /\ sync.pc = "done")
  => /\ sync.projectsUpdated = Cardinality(sync.touched \cap Projects)
     /\ sync.postsUpdated = Cardinality(sync.touched \cap Posts)

\* A syncAllCounts invocation has ended on a failure to enumerate: it is past
\* its last statement with no entity in hand, and the posts were not all
\* overwritten (a run that got through every loop overwrote them all).
StartFailed ==
  /\ sync.mode = "all" /\ sync.pc = "done"
  /\ sync.cur = Null
  /\ ~(Posts \subseteq sync.touched)

\* C11 (as claimed): when the select of all project ids or of all post ids
\* fails, syncAllCounts raises the failure to its invoker instead of returning
\* a result.
C11_StartFailureFatal == StartFailed => sync.outcome = "threw"

\* C12: a syncAllCounts run that recorded a failure is followed, with no write
\* to the normalized tables in between, by a syncAllCounts run that completes
\* without one: every project and post then has the counters a single
\* failure-free run produces, the counts of its rows.
C12_Restartable ==
  (/\ sync.mode = "all" /\ sync.pc = "done" /\ sync.errors = <<>>
   /\ prev.ok /\ prev.errors # <<>>)
  => \A e \in Projects \cup Posts : Consistent(e)

\* C12 witness: the failed run had overwritten some entity before it failed
\* (the clock has ticked once more than the complete run's overwrites), and a
\* project it left alone, whose two like rows no starting counter matched, now
\* has likeCount 2.
C12_Witness ==
  /\ sync.mode = "all" /\ sync.pc = "done" /\ sync.errors = <<>>
  /\ prev.ok /\ prev.errors # <<>>
  /\ now > 1 + Cardinality(Projects \cup Posts)
  /\ \E p \in Visited : /\ LikeRows(projectLikes, p) = 2
                        /\ projects[p].likeCount = 2
                        /\ prev.projects[p].likeCount < 2

\* C13 (as claimed): every createComment that inserted its comment and
\* returned it raised exactly one commentCount by 1, the one of the comment's
\* parent.
C13_CommentCounted ==
  \A c \in Clients :
    (client[c].op = "createComment" /\ client[c].pc = "done" /\ client[c].ret = "comment")
    => /\ client[c].rows = 1
       /\ client[c].delta = 1
       /\ CommentParent(client[c].cmt) \in {"project", "post"}

\* C14 (as claimed): every comment row has exactly one of projectId and postId
\* set.
C14_ParentExclusive ==
  \A cmt \in comments : (cmt.projectId # Null) # (cmt.postId # Null)

\* C15: every step of a deleteComment(id, userId) call does what the claim
\* says. Comment rows go only in its delete step, and they are the rows with
\* that id owned by userId; a commentCount changes only in its update step,
\* after the delete removed the row of a comment with that id and owner, and
\* the change is exactly -1 on that comment's parent and nothing else; a call
\* whose select finds no such comment ends there with false; a call that
\* returns false changed no row and no counter; no step touches likes,
\* bookmarks or views.
DeleteCommentStepExact(c) ==
  LET id == client[c].target
      u == client[c].user
      owned == {x \in comments : x.id = id /\ x.userId = u}
      cmt == client[c].cmt
  IN /\ comments' # comments
          => (client[c].pc = "delete" /\ owned # {} /\ comments' = comments \ owned)
     /\ (projects' # projects \/ communityPosts' # communityPosts)
          => /\ client[c].pc = "update" /\ client[c].rows = 1
             /\ cmt.id = id /\ cmt.userId = u /\ cmt \notin comments
             /\ IF cmt.projectId # Null
                  THEN /\ projects' = [projects EXCEPT ![cmt.projectId].commentCount = @ - 1]
                       /\ communityPosts' = communityPosts
                  ELSE /\ communityPosts' =
                            [communityPosts EXCEPT ![cmt.postId].commentCount = @ - 1]
                       /\ projects' = projects
             /\ client'[c].pc = "done" /\ client'[c].ret = "true"
     /\ (client[c].pc = "select" /\ owned = {} /\ client'[c].ret # "threw")
          => (client'[c].pc = "done" /\ client'[c].ret = "false")
     /\ (client'[c].pc = "done" /\ client'[c].ret = "false")
          => (store' = store /\ client'[c].rows = 0 /\ client'[c].delta = 0)
     /\ UNCHANGED <<projectLikes, projectBookmarks, postLikes, projectViews>>

C16_FailuresPropagate ==
  [][\A c \in Clients :
       (/\ client[c].op \in {"likeProject", "likeCommunityPost", "bookmarkProject",
                             "unlikeProject", "createComment", "deleteComment"}
        /\ client'[c] # client[c]
        /\ failuresLeft' < failuresLeft)
       => (client'[c].pc = "done" /\ client'[c].ret = "threw")]_vars

\* C17 (as claimed): a likeProject / likeCommunityPost call that returned false
\* found the pair's like row already there, added no row and left the target's
\* likeCount alone.
C17_FalseMeansNoEffect ==
  \A c \in Clients :
    (/\ client[c].op \in {"likeProject", "likeCommunityPost"}
     /\ client[c].pc = "done" /\ client[c].ret = "false")
    => (client[c].had > 0 /\ client[c].rows = 0 /\ client[c].delta = 0)

\* C18 (as claimed): every view-recording call that has returned appended one
\* projectViews row and raised the project's viewCount by 1, so that whenever
\* no call is in flight (no statement fails under SpecViews, and before any
\* reconciler run) every project's cached viewCount equals the number of its
\* projectViews rows.
C18_ViewTracking ==
  /\ \A c \in Clients :
       (/\ client[c].op \in {"trackProjectView", "incrementProjectViews"}
        /\ client[c].pc = "done" /\ client[c].ret = "void")
       => (client[c].rows = 1 /\ client[c].delta = 1)
  /\ (Quiescent /\ runsLeft = MaxSyncRuns)
       => \A p \in Projects : projects[p].viewCount = CountViews(p)

\* C19: no step of a bookmarkProject or unbookmarkProject call, whatever the
\* call returns, changes a project's or a post's likeCount, commentCount,
\* viewCount or countsLastUpdated, or a row of any table other than
\* projectBookmarks.
C19_BookmarkFrame ==
  [][\A c \in Clients :
       (/\ client[c].op \in {"bookmarkProject", "unbookmarkProject"}
        /\ client'[c] # client[c])
       => UNCHANGED <<projects, communityPosts, projectLikes, postLikes, comments,
                      projectViews>>]_vars

\* C19 witness: one bookmark call has returned true and left its row, one
\* unbookmark call has returned false, and the bookmarked project's counters
\* and stamp are as they were created.
C19_Witness ==
  \E c, d \in Clients :
    /\ client[c].op = "bookmarkProject" /\ client[c].pc = "done" /\ client[c].ret = "true"
    /\ client[d].op = "unbookmarkProject" /\ client[d].pc = "done"
    /\ client[d].ret = "false"
    /\ projectBookmarks[<<client[c].target, client[c].user>>] = 1
    /\ projects[client[c].target] = NewProject

\* C20: countsLastUpdated of a project or post changes only in a reconciler's
\* update statement, and to a newer stamp; no step of a request does it
\* (like, unlike, bookmark, unbookmark, createComment, deleteComment, view
\* tracking); and every reconciler update that overwrites an entity's
\* counters stamps that entity.
Stamps == [e \in Projects \cup Posts |->
             IF e \in Projects THEN projects[e].countsLastUpdated
                               ELSE communityPosts[e].countsLastUpdated]

C20_StampedOnlyByReconciler ==
  [][/\ client' # client => Stamps' = Stamps
     /\ \A e \in Projects \cup Posts :
          Stamps'[e] # Stamps[e]
            => /\ sync.pc \in {"projectUpdate", "postUpdate"} /\ sync.cur = e
               /\ Stamps'[e] > Stamps[e]
     /\ sync'.touched \ sync.touched # {}
          => /\ sync.pc \in {"projectUpdate", "postUpdate"}
             /\ sync'.touched = sync.touched \cup {sync.cur}
             /\ Stamps'[sync.cur] = now /\ Stamps'[sync.cur] > Stamps[sync.cur]]_vars

\* C20 witness: a like has raised a project's likeCount and a reconciler call
\* on that project has returned; the project carries the reconciler's stamp,
\* and a project no reconciler visited still has none.
C20_Witness ==
  /\ sync.pc = "done" /\ sync.mode = "singleProject" /\ sync.outcome = "returned"
  /\ projects[sync.cur].countsLastUpdated > 0
  /\ \E c \in Clients : /\ client[c].op = "likeProject" /\ client[c].pc = "done"
                        /\ client[c].ret = "true" /\ client[c].target = sync.cur
  /\ \E p \in Projects : projects[p].countsLastUpdated = 0

\* C21: the step in which a read method returns changes no row of any table,
\* and what it returns is, for each entity it matched, the likeCount,
\* commentCount (and viewCount) columns as stored at that moment, whether or
\* not they equal the row counts.
ReadReturns(c) ==
  /\ client[c].op \in {"getProject", "getProjects", "getUserProjects",
                       "getCommunityPost", "getCommunityPosts"}
  /\ client[c].pc = "select" /\ client'[c].pc = "done" /\ client'[c].ret = "rows"

C21_ReadsReturnCached ==
  [][\A c \in Clients :
       ReadReturns(c)
         => /\ store' = store
            /\ \A r \in client'[c].result :
                 IF r.id \in Projects
                   THEN /\ r.likeCount = projects[r.id].likeCount
                        /\ r.commentCount = projects[r.id].commentCount
                        /\ r.viewCount = projects[r.id].viewCount
                   ELSE /\ r.likeCount = communityPosts[r.id].likeCount
                        /\ r.commentCount = communityPosts[r.id].commentCount
            /\ client[c].op = "getProject"
                 => {r.id : r \in client'[c].result} = {client[c].target}
            /\ client[c].op = "getProjects"
                 => {r.id : r \in client'[c].result} = Projects]_vars

\* C21 witness: getProject has returned a project whose cached likeCount is
\* not its number of like rows: the returned value is the cached one.
C21_Witness ==
  \E c \in Clients :
    /\ client[c].op = "getProject" /\ client[c].pc = "done" /\ client[c].ret = "rows"
    /\ \E r \in client[c].result :
         /\ r.id = client[c].target
         /\ r.likeCount = projects[r.id].likeCount
         /\ r.likeCount # LikeRows(projectLikes, r.id)

\* C22: in every state every like, bookmark and comment row references a
\* project or post that has a row; in particular once deleteProject(P) or
\* deleteCommunityPost(Q) has returned true and as long as the row is gone, no
\* like, bookmark or comment row references it.
C22_Cascade ==
  /\ \A x \in Projects \X Users :
       (projectLikes[x] > 0 \/ projectBookmarks[x] > 0) => RowExists(x[1])
  /\ \A x \in Posts \X Users : postLikes[x] > 0 => RowExists(x[1])
  /\ \A cmt \in comments : ParentsExist(cmt)

\* C22 witness: deleteProject has returned true for the project that had a
\* like, a bookmark and a comment, and a like of that project that was called
\* before the delete has come back false, its insert rejected.
C22_Witness ==
  \E c, d \in Clients :
    /\ client[c].op = "deleteProject" /\ client[c].pc = "done" /\ client[c].ret = "true"
    /\ ~RowExists(client[c].target)
    /\ client[d].op = "likeProject" /\ client[d].target = client[c].target
    /\ client[d].pc = "done" /\ client[d].ret = "false" /\ client[d].rows = 0
    /\ failuresLeft = MaxFailures

\* C23: a deleteProject / deleteCommunityPost call returns true only when
\* userId owns the row, and then the row is gone; when the id has no row or
\* another user owns it the call returns false and changes no row and no
\* counter; and a project's or post's row goes only in such a delete by its
\* owner.
DeleteStepExact(c) ==
  LET e == client[c].target
      u == client[c].user
  IN /\ client'[c].ret = "true"
          => (RowExists(e) /\ owner[e] = u /\ owner'[e] = Null)
     /\ client'[c].ret = "false"
          => ((~RowExists(e) \/ owner[e] # u) /\ store' = store)
     /\ client'[c].ret = "threw" => store' = store

C23_OwnerOnlyDelete ==
  [][/\ \A c \in Clients :
          (/\ client[c].op \in {"deleteProject", "deleteCommunityPost"}
           /\ client[c].pc = "delete" /\ client'[c].pc = "done")
          => DeleteStepExact(c)
     /\ \A e \in Projects \cup Posts :
          owner'[e] # owner[e]
            => \E c \in Clients :
                 /\ client[c].op \in {"deleteProject", "deleteCommunityPost"}
                 /\ client[c].target = e /\ client[c].user = owner[e]
                 /\ client'[c].ret = "true"]_vars

\* C23 witness: a user who is not the owner has called deleteProject and got
\* false, the project still there with its like, bookmark and comment, while
\* the owner's deleteCommunityPost has returned true and the post is gone.
C23_Witness ==
  \E c, d \in Clients :
    /\ client[c].op = "deleteProject" /\ client[c].pc = "done" /\ client[c].ret = "false"
    /\ client[c].user # Author /\ owner[client[c].target] = Author
    /\ LikeRows(projectLikes, client[c].target) = 1
    /\ projects[client[c].target].likeCount = 1
    /\ projects[client[c].target].commentCount = 1
    /\ client[d].op = "deleteCommunityPost" /\ client[d].pc = "done"
    /\ client[d].ret = "true" /\ client[d].user = Author
    /\ ~RowExists(client[d].target)

\* ---------------------------------------------------------------------------
\* The inline path alone: every storage call of the routes, on a fresh and
\* therefore consistent database, with no failing statement and no reconciler.
InitInline ==
  /\ FreshStore
  /\ AtRest
  /\ runsLeft = 0
  /\ failuresLeft = 0

InlineNext == \E c \in Clients : ClientStep(c)

SpecInline == InitInline /\ [][InlineNext]_vars

\* C24 (as claimed): from a consistent start, with no failing statement and no
\* reconciler run, whenever no inline operation is in flight every project's
\* and post's likeCount equals its number of like rows and its commentCount
\* equals its number of comment rows.
C24_QuiescentConsistency ==
  Quiescent
  => /\ \A p \in Projects :
          /\ projects[p].likeCount = CountLikes(projectLikes, p)
          /\ projects[p].commentCount = CountProjectComments(p)
     /\ \A q \in Posts :
          /\ communityPosts[q].likeCount = CountLikes(postLikes, q)
          /\ communityPosts[q].commentCount = CountPostComments(q)

\* ---------------------------------------------------------------------------
\* Removals racing each other: u1 has liked p1 (once, or twice where the
\* missing unique constraint let a duplicate in), comment 1 is u1's on p1 and
\* comment 2 is u2's on q1; every counter equals its row count. Two clients
\* call unlikeProject and deleteComment; no statement fails, no reconciler.
LikedStore ==
  /\ \E n \in 1..MaxCalls :
       /\ projectLikes = [x \in Projects \X Users |-> IF x = <<"p1", "u1">> THEN n ELSE 0]
       /\ projects = [p \in Projects |->
            IF p = "p1" THEN [NewProject EXCEPT !.likeCount = n, !.commentCount = 1]
            ELSE NewProject]
  /\ communityPosts = [q \in Posts |-> [NewPost EXCEPT !.commentCount = 1]]
  /\ projectBookmarks = [x \in Projects \X Users |-> 0]
  /\ postLikes = [x \in Posts \X Users |-> 0]
  /\ comments = {[id |-> 1, projectId |-> "p1", postId |-> Null, userId |-> "u1"],
                 [id |-> 2, projectId |-> Null, postId |-> "q1", userId |-> "u2"]}
  /\ projectViews = [p \in Projects |-> 0]
  /\ nextCommentId = 3
  /\ users = Users
  /\ owner = [e \in Projects \cup Posts |-> Author]

InitRemove ==
  /\ LikedStore
  /\ AtRest
  /\ runsLeft = 0
  /\ failuresLeft = 0

RemoveNext ==
  \E c \in Clients :
    \/ UnlikeProjectCall(c) \/ UnlikeProjectDelete(c) \/ UnlikeProjectUpdate(c)
    \/ DeleteCommentCall(c) \/ DeleteCommentSelect(c) \/ DeleteCommentDelete(c)
    \/ DeleteCommentUpdate(c)

SpecRemove == InitRemove /\ [][RemoveNext]_vars

\* Two calls of the same removal on the same subject, each begun while its
\* row was still there, have both returned.
SameRemoval(c, d, op) ==
  /\ c # d
  /\ client[c].op = op /\ client[d].op = op
  /\ client[c].pc = "done" /\ client[d].pc = "done"
  /\ client[c].target = client[d].target /\ client[c].user = client[d].user
  /\ client[c].had > 0 /\ client[d].had > 0

\* C25: of two concurrent deleteComment calls for the same comment by its
\* owner, and of two concurrent unlikeProject calls for the same (project,
\* user) pair, exactly one returns true and the other false, the row is gone
\* and the parent's cached counter went down by exactly 1.
C25_RemoveOnce ==
  \A c, d \in Clients :
    /\ SameRemoval(c, d, "unlikeProject")
       => /\ {client[c].ret, client[d].ret} = {"true", "false"}
          /\ client[c].delta + client[d].delta = -1
          /\ RowCount(projectLikes, client[c].target, client[c].user) = 0
          /\ projects[client[c].target].likeCount = client[c].had - 1
    /\ SameRemoval(c, d, "deleteComment")
       => /\ {client[c].ret, client[d].ret} = {"true", "false"}
          /\ client[c].delta + client[d].delta = -1
          /\ OwnedComment(client[c].target, client[c].user) = {}
          /\ \A p \in Projects : projects[p].commentCount = CountProjectComments(p)
          /\ \A q \in Posts : communityPosts[q].commentCount = CountPostComments(q)

\* C25 witness: two deleteComment calls for comment 1 by its owner both began
\* while the comment was there, one returned true and the other false, and
\* p1's commentCount went from 1 to 0.
C25_Witness ==
  \E c, d \in Clients :
    /\ SameRemoval(c, d, "deleteComment")
    /\ client[c].target = 1 /\ client[c].user = "u1"
    /\ client[c].ret = "true" /\ client[d].ret = "false"
    /\ projects["p1"].commentCount = 0

\* C26 (as claimed): of two concurrent likeProject(T, U) calls on a target U
\* had not liked, exactly one returns true and the other false, one like row
\* for (T, U) exists afterwards and T's likeCount went up by exactly 1.
C26_SameUserLikesOnce ==
  \A c, d \in Clients :
    (/\ c # d
     /\ client[c].op = "likeProject" /\ client[d].op = "likeProject"
     /\ client[c].pc = "done" /\ client[d].pc = "done"
     /\ client[c].target = client[d].target /\ client[c].user = client[d].user
     /\ client[c].had = 0 /\ client[d].had = 0)
    => /\ {client[c].ret, client[d].ret} = {"true", "false"}
       /\ RowCount(projectLikes, client[c].target, client[c].user) = 1
       /\ client[c].delta + client[d].delta = 1

\* ---------------------------------------------------------------------------
\* A two-step write cut short: the same consistent database, the four
\* two-step writes of the claim, one statement may fail, no reconciler.
InitDrift ==
  /\ LikedStore
  /\ AtRest
  /\ runsLeft = 0
  /\ failuresLeft = MaxFailures

DriftNext ==
  \E c \in Clients :
    \/ LikeProjectCall(c) \/ LikeProjectInsert(c) \/ LikeProjectUpdate(c)
    \/ UnlikeProjectCall(c) \/ UnlikeProjectDelete(c) \/ UnlikeProjectUpdate(c)
    \/ CreateCommentCall(c) \/ CreateCommentInsert(c) \/ CreateCommentUpdate(c)
    \/ DeleteCommentCall(c) \/ DeleteCommentSelect(c) \/ DeleteCommentDelete(c)
    \/ DeleteCommentUpdate(c)

SpecDrift == InitDrift /\ [][DriftNext]_vars

\* The call of client c wrote its row and ended on the failure of its counter
\* update.
CutShort(c, op) ==
  /\ client[c].op = op /\ client[c].pc = "done"
  /\ client[c].ret \in {"false", "threw"}
  /\ client[c].rows > 0 /\ client[c].delta = 0

\* commentCount minus comment rows of the parent createComment / deleteComment
\* picks for the comment.
CommentDrift(cmt) ==
  IF CommentParent(cmt) = "project"
    THEN projects[cmt.projectId].commentCount - CountProjectComments(cmt.projectId)
    ELSE communityPosts[cmt.postId].commentCount - CountPostComments(cmt.postId)

\* C27 (as claimed): from a consistent start and with no reconciler run, once
\* a likeProject or createComment was cut short between its insert and its
\* increment the cached counter is strictly less than the row count, once an
\* unlikeProject or deleteComment was cut short between its delete and its
\* decrement it is strictly greater, and this is so at every later point where
\* no call is in flight.
C27_DriftDirection ==
  Quiescent =>
    \A c \in Clients :
      /\ CutShort(c, "likeProject")
         => projects[client[c].target].likeCount
              < CountLikes(projectLikes, client[c].target)
      /\ CutShort(c, "createComment") => CommentDrift(client[c].cmt) < 0
      /\ CutShort(c, "unlikeProject")
         => projects[client[c].target].likeCount
              > CountLikes(projectLikes, client[c].target)
      /\ CutShort(c, "deleteComment") => CommentDrift(client[c].cmt) > 0

\* C28: the sync script exits with status 0 whenever syncAllCounts has
\* resolved, also when the result lists errors and both update totals are 0,
\* and with status 1 only when syncAllCounts rejected.
C28_ExitStatus ==
  prev.ok
  => /\ prev.outcome = "returned" => prev.exit = 0
     /\ prev.exit = 1 => prev.outcome = "threw"
     /\ prev.exit \in {0, 1}

\* C28 witness: a batch run whose first statement failed has resolved with a
\* non-empty errors list and both totals 0, and the script has exited with 0.
C28_Witness ==
  /\ prev.ok
  /\ prev.outcome = "returned"
  /\ prev.errors # <<>>
  /\ prev.projectsUpdated = 0 /\ prev.postsUpdated = 0
  /\ prev.exit = 0

\* ---------------------------------------------------------------------------
\* GET /api/projects/:id: getProject, then trackProjectView, then the answer.
\* res.json(project): the body is the object getProject returned, not the row
\* as trackProjectView left it.
\* Mutant: the body carries the stored viewCount after the view was tracked.
ResponseBodyStored(project, stored) ==
  {[r EXCEPT !.viewCount = stored.viewCount] : r \in project}
ResponseBody(project, stored) == project

GetProjectRouteCall(c) ==
  \E p \in Projects : Begin(c, "GET /api/projects/:id", p, Null, "select", 0)

\* const project = await storage.getProject(req.params.id);
\* if (!project) return res.status(404)...
GetProjectRouteSelect(c) ==
  /\ client[c].op = "GET /api/projects/:id" /\ client[c].pc = "select"
  /\ \/ LET project == {ProjectProjection(p) : p \in Existing({client[c].target})} IN
        /\ IF project = {}
             THEN Finish(c, "404", 0, 0)
             ELSE client' = [client EXCEPT ![c].pc = "insert", ![c].had = 1,
                                           ![c].result = project]
        /\ UNCHANGED <<store, now, sync, calls, runsLeft, failuresLeft, dirty, prev>>
     \/ Fail(c, "500")                  \* catch { res.status(500) }

\* await storage.trackProjectView(...): the view row, then the counter.
GetProjectRouteTrackInsert(c) ==
  /\ client[c].op = "GET /api/projects/:id" /\ client[c].pc = "insert"
  /\ \/ /\ projectViews' = [projectViews EXCEPT ![client[c].target] = @ + 1]
        /\ client' = [client EXCEPT ![c].pc = "update", ![c].rows = 1]
        /\ RowWrite
        /\ UNCHANGED <<projects, communityPosts, projectLikes, projectBookmarks, postLikes,
                       comments, nextCommentId, Others, failuresLeft>>
     \/ Fail(c, "500")

GetProjectRouteTrackUpdate(c) ==
  /\ client[c].op = "GET /api/projects/:id" /\ client[c].pc = "update"
  /\ \/ LET stored == AddViewCount(projects[client[c].target], ViewDelta) IN
        /\ projects' = WhereId(projects, client[c].target, stored)
        /\ client' = [client EXCEPT ![c].pc = "done", ![c].ret = "200",
                                    ![c].delta = ViewDelta,
                                    ![c].result = ResponseBody(client[c].result, stored)]
        /\ UNCHANGED <<communityPosts, projectLikes, projectBookmarks, postLikes, comments,
                       projectViews, nextCommentId, Others, failuresLeft, dirty, prev>>
     \/ Fail(c, "500")

\* The database holds p1 and the posts; no project has the id p2.
InitRoute ==
  /\ projects = [p \in Projects |-> NewProject]
  /\ communityPosts = [q \in Posts |-> NewPost]
  /\ projectLikes = [x \in Projects \X Users |-> 0]
  /\ projectBookmarks = [x \in Projects \X Users |-> 0]
  /\ postLikes = [x \in Posts \X Users |-> 0]
  /\ comments = {}
  /\ projectViews = [p \in Projects |-> 0]
  /\ nextCommentId = 1
  /\ users = Users
  /\ owner = [e \in Projects \cup Posts |-> IF e \in Visited \cup Posts THEN Author ELSE Null]
  /\ AtRest
  /\ runsLeft = 0
  /\ failuresLeft = MaxFailures

RouteNext ==
  \E c \in Clients :
    \/ GetProjectRouteCall(c) \/ GetProjectRouteSelect(c)
    \/ GetProjectRouteTrackInsert(c) \/ GetProjectRouteTrackUpdate(c)
    \/ Respond(c)

SpecRoute == InitRoute /\ [][RouteNext]_vars

\* C29: in GET /api/projects/:id the project is read before the view is
\* tracked. A view row and a viewCount increment exist only for a project
\* that has a row, and a request answered 404 recorded nothing; the viewCount
\* in a 200 answer is below the stored viewCount, which includes this
\* request's own view; a request that found the project and whose tracking
\* did not complete is answered 500.
C29_ReadBeforeTrack ==
  /\ \A p \in Projects :
       ~RowExists(p) => (projectViews[p] = 0 /\ projects[p].viewCount = 0)
  /\ \A c \in Clients :
       (client[c].op = "GET /api/projects/:id" /\ client[c].pc = "done")
       => /\ client[c].ret = "404"
               => (~RowExists(client[c].target) /\ client[c].rows = 0 /\ client[c].delta = 0)
          /\ client[c].ret = "200"
               => /\ RowExists(client[c].target)
                  /\ client[c].rows = 1 /\ client[c].delta = 1
                  /\ \A r \in client[c].result :
                       /\ r.id = client[c].target
                       /\ r.viewCount < projects[client[c].target].viewCount
          /\ (client[c].had = 1 /\ client[c].delta = 0) => client[c].ret = "500"
          /\ client[c].ret \in {"200", "404", "500"}

\* C29 witness: one request for the missing p2 was answered 404 and one for
\* p1 was answered 200 with viewCount 0 while p1's stored viewCount is 1.
C29_Witness ==
  \E c, d \in Clients :
    /\ client[c].op = "GET /api/projects/:id" /\ client[c].pc = "done"
    /\ client[c].ret = "404" /\ client[c].target = "p2"
    /\ client[d].op = "GET /api/projects/:id" /\ client[d].pc = "done"
    /\ client[d].ret = "200" /\ client[d].target = "p1"
    /\ \E r \in client[d].result : r.viewCount = 0
    /\ projects["p1"].viewCount = 1 /\ projectViews["p1"] = 1
    /\ projectViews["p2"] = 0

\* ---------------------------------------------------------------------------
\* seedDatabase(): one select and five inserts, no transaction; the catch logs
\* and rethrows.
MockUser == "u1"                         \* "mock-user-1"
MockUsers == Users
MockProjectLikes == {<<"p1", "u2">>, <<"p2", "u1">>}
MockPostLikes == {<<"q1", "u2">>}

\* db.select().from(users).where(eq(users.id, "mock-user-1"))
\* Mutant: the existence check finds nothing.
ExistingUsersNone == {}
ExistingUsers == users \cap {MockUser}

\* insert(t).values(rows): one row per listed pair, no counter touched.
InsertPairs(table, rows) == [x \in DOMAIN table |-> table[x] + IF x \in rows THEN 1 ELSE 0]

SeedStep(c, pc, next) ==
  /\ client[c].op = "seedDatabase" /\ client[c].pc = pc
  /\ client' = [client EXCEPT ![c].pc = next, ![c].rows = @ + 1]
  /\ RowWrite
  /\ UNCHANGED <<now, sync, calls, runsLeft, failuresLeft>>

SeedDatabaseCall(c) ==
  Begin(c, "seedDatabase", Null, Null, "select", Cardinality(ExistingUsers))

SeedDatabaseSelect(c) ==
  /\ client[c].op = "seedDatabase" /\ client[c].pc = "select"
  /\ \/ /\ IF ExistingUsers # {}
             THEN Finish(c, "skipped", 0, 0)     \* existingUsers.length > 0: return
             ELSE client' = [client EXCEPT ![c].pc = "users"]
        /\ UNCHANGED <<store, now, sync, calls, runsLeft, failuresLeft, dirty, prev>>
     \/ Fail(c, "threw")

\* users.id is the primary key: the insert fails when a listed id is there.
SeedDatabaseUsers(c) ==
  \/ /\ users \cap MockUsers = {}
     /\ SeedStep(c, "users", "projects")
     /\ users' = users \cup MockUsers
     /\ UNCHANGED <<projects, communityPosts, projectLikes, projectBookmarks, postLikes,
                    comments, projectViews, nextCommentId, owner>>
  \/ /\ client[c].op = "seedDatabase" /\ client[c].pc = "users"
     /\ \/ Fail(c, "threw")
        \/ (users \cap MockUsers # {} /\ Rejected(c, "threw"))

SeedDatabaseProjects(c) ==
  \/ /\ Existing(Projects) = {}
     /\ SeedStep(c, "projects", "posts")
     /\ owner' = [e \in Projects \cup Posts |-> IF e \in Projects THEN Author ELSE owner[e]]
     /\ UNCHANGED <<projects, communityPosts, projectLikes, projectBookmarks, postLikes,
                    comments, projectViews, nextCommentId, users>>
  \/ /\ client[c].op = "seedDatabase" /\ client[c].pc = "projects"
     /\ \/ Fail(c, "threw")
        \/ (Existing(Projects) # {} /\ Rejected(c, "threw"))

SeedDatabasePosts(c) ==
  \/ /\ Existing(Posts) = {}
     /\ SeedStep(c, "posts", "projectLikes")
     /\ owner' = [e \in Projects \cup Posts |-> IF e \in Posts THEN Author ELSE owner[e]]
     /\ UNCHANGED <<projects, communityPosts, projectLikes, projectBookmarks, postLikes,
                    comments, projectViews, nextCommentId, users>>
  \/ /\ client[c].op = "seedDatabase" /\ client[c].pc = "posts"
     /\ \/ Fail(c, "threw")
        \/ (Existing(Posts) # {} /\ Rejected(c, "threw"))

SeedDatabaseProjectLikes(c) ==
  \/ /\ Existing(Projects) = Projects
     /\ SeedStep(c, "projectLikes", "postLikes")
     /\ projectLikes' = InsertPairs(projectLikes, MockProjectLikes)
     /\ UNCHANGED <<projects, communityPosts, projectBookmarks, postLikes, comments,
                    projectViews, nextCommentId, users, owner>>
  \/ /\ client[c].op = "seedDatabase" /\ client[c].pc = "projectLikes"
     /\ \/ Fail(c, "threw")
        \/ (Existing(Projects) # Projects /\ Rejected(c, "threw"))

SeedDatabasePostLikes(c) ==
  \/ /\ Existing(Posts) = Posts
     /\ client[c].op = "seedDatabase" /\ client[c].pc = "postLikes"
     /\ postLikes' = InsertPairs(postLikes, MockPostLikes)
     /\ Finish(c, "seeded", client[c].rows + 1, 0)
     /\ RowWrite
     /\ UNCHANGED <<projects, communityPosts, projectLikes, projectBookmarks, comments,
                    projectViews, nextCommentId, users, owner, now, sync, calls, runsLeft,
                    failuresLeft>>
  \/ /\ client[c].op = "seedDatabase" /\ client[c].pc = "postLikes"
     /\ \/ Fail(c, "threw")
        \/ (Existing(Posts) # Posts /\ Rejected(c, "threw"))

\* An empty database; seedDatabase runs beside likeProject calls.
InitSeed ==
  /\ projects = [p \in Projects |-> NewProject]
  /\ communityPosts = [q \in Posts |-> NewPost]
  /\ projectLikes = [x \in Projects \X Users |-> 0]
  /\ projectBookmarks = [x \in Projects \X Users |-> 0]
  /\ postLikes = [x \in Posts \X Users |-> 0]
  /\ comments = {}
  /\ projectViews = [p \in Projects |-> 0]
  /\ nextCommentId = 1
  /\ users = {}
  /\ owner = [e \in Projects \cup Posts |-> Null]
  /\ AtRest
  /\ runsLeft = 0
  /\ failuresLeft = MaxFailures

SeedNext ==
  \E c \in Clients :
    \/ SeedDatabaseCall(c) \/ SeedDatabaseSelect(c) \/ SeedDatabaseUsers(c)
    \/ SeedDatabaseProjects(c) \/ SeedDatabasePosts(c)
    \/ SeedDatabaseProjectLikes(c) \/ SeedDatabasePostLikes(c)
    \/ LikeProjectCall(c) \/ LikeProjectInsert(c) \/ LikeProjectUpdate(c)

SpecSeed == InitSeed /\ [][SeedNext]_vars

\* The seedDatabase run of client d went through all five inserts.
SeedCompleted(d) ==
  /\ client[d].op = "seedDatabase" /\ client[d].pc = "done"
  /\ client[d].ret = "seeded"

\* C30: once a seedDatabase run has completed, every step of another run
\* leaves users, projects, posts, likes and cached counters as they are, and
\* its select finds mock-user-1 and ends the run; and no step of any
\* seedDatabase run, the inserts into projectLikes and postLikes included,
\* changes a cached counter.
C30_SeedIdempotent ==
  [][\A c \in Clients :
       (client[c].op = "seedDatabase" /\ client'[c] # client[c])
       => /\ projects' = projects /\ communityPosts' = communityPosts
          /\ (\E d \in Clients \ {c} : SeedCompleted(d))
               => /\ store' = store
                  /\ (client[c].pc = "select" /\ failuresLeft' = failuresLeft)
                       => (client'[c].pc = "done" /\ client'[c].ret = "skipped")]_vars

\* C30 witness: a first run on the empty database completed, a later run
\* found mock-user-1 and skipped, and the seeded like rows stand beside
\* likeCount 0.
C30_Witness ==
  \E c, d \in Clients :
    /\ SeedCompleted(d) /\ client[d].had = 0
    /\ client[c].op = "seedDatabase" /\ client[c].pc = "done"
    /\ client[c].ret = "skipped" /\ client[c].had = 1
    /\ users = MockUsers
    /\ projectLikes[<<"p1", "u2">>] = 1 /\ projects["p1"].likeCount = 0
    /\ postLikes[<<"q1", "u2">>] = 1 /\ communityPosts["q1"].likeCount = 0
====
